---- MODULE Spec2Model ----
(***************************************************************************)
(* State-machine model of run_bur_job.py: a scheduled job that reads the   *)
(* current issue number of the BUR Piemonte from its landing page and,     *)
(* when the number differs from the one kept in state.json, snapshots the  *)
(* fixed sub-pages as PDFs, optionally uploads them to Drive, mails them   *)
(* and records the number in state.json.                                   *)
(*                                                                         *)
(* One invocation of main() is one process.  state.json is the only        *)
(* variable that invocations share.  The remote site, wkhtmltopdf, Drive   *)
(* and the SMTP server are the environment: each call to them draws its    *)
(* outcome from a set of representative outcomes.                          *)
(***************************************************************************)
EXTENDS Integers, Sequences, FiniteSets, TLC

VARIABLES
    file,   \* contents of state.json
    env,    \* what the environment may do in this behaviour (never changes)
    pc,     \* pc[p]: where invocation p of main() stands
    loc,    \* loc[p]: the local variables of main() in invocation p
    obs,    \* obs[p]: history of the current run of p (what it did so far)
    prev    \* prev[p]: summary of the run of p that completed before this one

vars == <<file, env, pc, loc, obs, prev>>

-----------------------------------------------------------------------------
(* Bounds and sample sets *)

\* Issue numbers the landing page may show are 0..MaxIssue.
MaxIssue == 1

Issues == 0..MaxIssue

\* The invocations of main(); a sequential schedule uses only the first.
Procs == {1, 2}

\* Python's None, as an integer outside the issue numbers.
None == -1

-----------------------------------------------------------------------------
(* Configuration (lines 15-42) *)

YEAR == 2025

\* A time of day <<hour, minute, second, microsecond>>, as datetime.time.
WINDOW_START == <<9, 0, 0, 0>>

WINDOW_END == <<18, 0, 0, 0>>

PAGES == <<"siste", "suppo1", "suppo2", "suppo3">>

\* datetime.time's order: lexicographic on (hour, minute, second, microsecond).
TimeLE(a, b) ==
    \/ a[1] < b[1]
    \/ a[1] = b[1] /\ a[2] < b[2]
    \/ a[1] = b[1] /\ a[2] = b[2] /\ a[3] < b[3]
    \/ a[1] = b[1] /\ a[2] = b[2] /\ a[3] = b[3] /\ a[4] <= b[4]

\* Faulty variant: the lower end of the window is not checked.
now_in_window_no_start(t) == TimeLE(t, WINDOW_END)

\* now_in_window with t the clock reading datetime.now(TZ).time().
now_in_window(t) == TimeLE(WINDOW_START, t) /\ TimeLE(t, WINDOW_END)

\* Clock readings around both ends of the window and inside it.
TimeSamples ==
    { <<8, 59, 59, 999999>>, <<9, 0, 0, 0>>, <<13, 30, 15, 0>>,
      <<18, 0, 0, 0>>, <<18, 0, 0, 1>> }

\* No clock reading.
NoTime == <<-1, -1, -1, -1>>

-----------------------------------------------------------------------------
(* state.json *)

NoFile == [exists |-> FALSE, last_number |-> None, year |-> None]

StoredFile(n, y) == [exists |-> TRUE, last_number |-> n, year |-> y]

\* The dict main() holds before load_state() has run.
NoState == [last_number |-> None, year |-> None]

\* load_state: the stored object, or the default when the file is missing.
\* (A state.json that is not valid JSON makes json.load raise, which ends the
\* run before any request; the files considered here are the ones save_state
\* writes and the default object.)
load_state(f) ==
    IF f.exists
    THEN [last_number |-> f.last_number, year |-> f.year]
    ELSE [last_number |-> None, year |-> YEAR]

\* save_state: the dict replaces the whole file.
save_state(state) == StoredFile(state.last_number, state.year)

\* Faulty variant: the year of the stored object is kept.
new_state_keeps_year(state, cur) == [state EXCEPT !.last_number = cur]

\* Lines 319-320: st["last_number"] = cur_num; st["year"] = YEAR.
new_state(state, cur) == [state EXCEPT !.last_number = cur, !.year = YEAR]

\* Faulty variant: a forced send records the state too.
must_save_or_forced(l) == l.new_issue \/ l.force_send

\* Line 318: the state is written for a new issue only.
must_save(l) == l.new_issue

-----------------------------------------------------------------------------
(* The landing page and the issue number (lines 57-71) *)

NoHtml == [kind |-> "none", num |-> None, date |-> ""]

\* A landing page whose text matches the primary pattern ("Bollettino
\* Ufficiale n. N del D"), only the fallback pattern ("Bollettino n° N del
\* D"), or neither.
Html(kind, n) == [kind |-> kind, num |-> n, date |-> "28 agosto 2025"]

\* What s.get(CORRENTE_SISTE) may do: raise (timeout, retries exhausted), or
\* return a response with a status and a body.
LandingResponses ==
    { [exc |-> TRUE, status |-> 0, html |-> NoHtml],
      [exc |-> FALSE, status |-> 404, html |-> NoHtml],
      [exc |-> FALSE, status |-> 200, html |-> NoHtml] }
    \cup { [exc |-> FALSE, status |-> 200, html |-> Html(k, n)] :
             k \in {"primary", "fallback"}, n \in Issues }

Raised == [raised |-> TRUE, num |-> None, date |-> ""]

\* parse_bur_number: the primary pattern, then the fallback one, else
\* RuntimeError.
parse_bur_number(html) ==
    IF html.kind = "primary" \/ html.kind = "fallback"
    THEN [raised |-> FALSE, num |-> html.num, date |-> html.date]
    ELSE Raised

\* get_current_bur_number: GET, raise_for_status (4xx and 5xx raise), parse.
get_current_bur_number(resp) ==
    IF resp.exc THEN Raised
    ELSE IF resp.status >= 400 THEN Raised
    ELSE parse_bur_number(resp.html)

\* Python's (x or 0) for x an int or None: None and 0 are falsy.
OrZero(x) == IF x = None \/ x = 0 THEN 0 ELSE x

\* Faulty variant: only a number above the stored one is new.
is_new_issue_only_larger(state, cur) == state.last_number < cur /\ cur # None

\* Faulty variant: any number is new, whatever is stored.
is_new_issue_ignores_state(state, cur) == cur # None

\* Line 261: new_issue = (st.get("last_number") != cur_num and cur_num is
\* not None).
is_new_issue(state, cur) == state.last_number # cur /\ cur # None

-----------------------------------------------------------------------------
(* Sub-pages: probe and render (lines 73-139) *)

\* What s.get(url) of a sub-page may do: raise, or answer with a status.
ProbeResponses ==
    { [exc |-> TRUE, status |-> 0] }
    \cup { [exc |-> FALSE, status |-> c] : c \in {199, 200, 302, 399, 400, 404, 503} }

\* Faulty variant: the upper bound is inclusive, so 400 counts as "exists".
url_exists_incl_400(r) ==
    IF r.exc THEN FALSE ELSE 200 <= r.status /\ r.status <= 400

\* url_exists: a status in [200, 400) is "exists"; an exception is "absent".
url_exists(r) ==
    IF r.exc THEN FALSE ELSE 200 <= r.status /\ r.status < 400

\* Where render_pdf_offline may fail: the GET raises, raise_for_status
\* raises, writing the temporary file raises, pdfkit raises (the finally
\* clause then unlinks), the unlink finds no file (caught), the unlink raises
\* another error, the final stat raises (caught).
RenderOutcomes ==
    { "ok", "get_exc", "http_error", "write_error", "pdfkit_error",
      "unlink_missing", "unlink_error", "stat_error" }

\* render_pdf_offline returns (TRUE) or raises (FALSE).
render_pdf_offline(o) ==
    CASE o = "get_exc" -> FALSE
      [] o = "http_error" -> FALSE
      [] o = "write_error" -> FALSE
      [] o = "pdfkit_error" -> FALSE
      [] o = "unlink_missing" -> TRUE
      [] o = "unlink_error" -> FALSE
      [] o = "stat_error" -> TRUE
      [] OTHER -> TRUE

\* Lines 274-275: the PDF's name, from the year, the issue and the page.
out_name(cur, page) == [year |-> YEAR, num |-> cur, page |-> page]

-----------------------------------------------------------------------------
(* Drive (lines 26-29, 142-200, 281-296) *)

\* ENABLE_DRIVE, DRIVE_FOLDER_ID and SERVICE_ACCOUNT_JSON: all set, or one
\* of them missing.
DriveConfigs ==
    { [enable |-> TRUE, folder |-> TRUE, account |-> TRUE],
      [enable |-> FALSE, folder |-> TRUE, account |-> TRUE],
      [enable |-> TRUE, folder |-> FALSE, account |-> TRUE],
      [enable |-> TRUE, folder |-> TRUE, account |-> FALSE] }

\* Line 281: ENABLE_DRIVE and DRIVE_FOLDER_ID and SERVICE_ACCOUNT_JSON.
drive_enabled(c) == c.enable /\ c.folder /\ c.account

\* What the Drive calls of one loop iteration may do.  client: drive_client()
\* returns or raises.  folder: drive_check_folder returns True, returns False
\* (an error it catches) or raises (its import fails).  upload:
\* upload_to_drive returns the metadata, returns None on the quota error or
\* another error it catches, or raises (its import fails).
DriveOutcome(c, f, u) == [client |-> c, folder |-> f, upload |-> u]

DriveOutcomes ==
    { DriveOutcome("raise", "ok", "ok"),
      DriveOutcome("ok", "raise", "ok"),
      DriveOutcome("ok", "denied", "ok") }
    \cup { DriveOutcome("ok", "ok", u) : u \in {"ok", "quota", "error", "raise"} }

\* upload_to_drive: the metadata (TRUE) or None (FALSE); "raise" escapes it.
upload_to_drive(o) == o.upload = "ok"

\* Lines 282-296, with d the value of main._drive ("none", "client" or
\* "false"): the new main._drive, whether a metadata was appended to
\* uploaded, and whether the step failed.
drive_step(d, o) ==
    IF d = "false"
    THEN [drive |-> d, meta |-> FALSE, failed |-> FALSE]
    ELSE IF d = "none" /\ o.client = "raise"
    THEN [drive |-> "none", meta |-> FALSE, failed |-> TRUE]
    ELSE IF d = "none" /\ o.folder = "raise"
    THEN [drive |-> "none", meta |-> FALSE, failed |-> TRUE]
    ELSE IF d = "none" /\ o.folder = "denied"
    THEN [drive |-> "false", meta |-> FALSE, failed |-> TRUE]
    ELSE [drive |-> "client",
          meta |-> upload_to_drive(o),
          failed |-> (o.upload # "ok")]

-----------------------------------------------------------------------------
(* Email (lines 34-40, 203-229) *)

\* SEND_EMAIL, SMTP_USER, SMTP_PASS and MAIL_TO (its length): all set, or
\* one of them missing.
MailConfigs ==
    { [send |-> TRUE, user |-> TRUE, pass |-> TRUE, to |-> 2],
      [send |-> FALSE, user |-> TRUE, pass |-> TRUE, to |-> 1],
      [send |-> TRUE, user |-> FALSE, pass |-> TRUE, to |-> 1],
      [send |-> TRUE, user |-> TRUE, pass |-> FALSE, to |-> 1],
      [send |-> TRUE, user |-> TRUE, pass |-> TRUE, to |-> 0] }

\* Faulty variant: the recipient list is not checked.
smtp_enabled_no_rcpt(c) == c.send /\ c.user /\ c.pass

\* Line 204: SEND_EMAIL and SMTP_USER and SMTP_PASS and MAIL_TO.
smtp_enabled(c) == c.send /\ c.user /\ c.pass /\ c.to > 0

\* What the SMTP path may do once enabled: succeed, fail to open a PDF,
\* fail to connect, fail to log in, fail to send.
SmtpOutcomes == {"ok", "open_error", "connect_error", "login_error", "send_error"}

\* send_smtp: "skipped" (returns at line 206), "sent" or "raised".
send_smtp(c, o) ==
    IF ~smtp_enabled(c) THEN "skipped"
    ELSE IF o = "ok" THEN "sent"
    ELSE "raised"

-----------------------------------------------------------------------------
(* The environment of a behaviour *)

\* FORCE_RUN and FORCE_SEND.
Flags == [force_run : BOOLEAN, force_send : BOOLEAN]

\* The files state.json may hold before the first run: none, the default
\* object, or an issue stored this year or the year before.
InitialFiles ==
    {NoFile}
    \cup { StoredFile(n, y) : n \in {None} \cup Issues, y \in {YEAR - 1, YEAR} }

\* One run of one invocation, with every outcome of every external call.
SingleRunEnv ==
    [procs |-> {1},
     rerun |-> FALSE,
     files |-> InitialFiles,
     flags |-> Flags,
     times |-> TimeSamples,
     landing |-> LandingResponses,
     probes |-> ProbeResponses,
     renders |-> RenderOutcomes,
     driveCfgs |-> DriveConfigs,
     driveOutcomes |-> DriveOutcomes,
     mailCfgs |-> MailConfigs,
     smtpOutcomes |-> SmtpOutcomes]

-----------------------------------------------------------------------------
(* main() (lines 242-322) *)

\* The locals of main() before its first statement.
InitLoc ==
    [force_run |-> FALSE, force_send |-> FALSE, drive_on |-> FALSE,
     t |-> NoTime, s |-> FALSE, st |-> NoState,
     cur_num |-> None, cur_date |-> "", new_issue |-> FALSE,
     page |-> 0, files_local |-> <<>>, uploaded |-> <<>>, drive |-> "none"]

\* The history of a run that has done nothing yet; f is state.json then.
InitObs(f) ==
    [file0 |-> f, gate |-> "none", loaded |-> None, fetched |-> None,
     probed |-> <<>>, okProbes |-> {}, rendered |-> <<>>, renderedOK |-> {},
     upFail |-> {}, net |-> 0, emailStep |-> FALSE, mailOn |-> FALSE,
     sent |-> 0, attach |-> <<>>, mailErr |-> FALSE, writes |-> 0]

NoPrev ==
    [ran |-> FALSE, gate |-> "none", fetched |-> None, cur_num |-> None,
     new_issue |-> FALSE]

\* What is remembered of a completed run.
Summary(l, o) ==
    [ran |-> TRUE, gate |-> o.gate, fetched |-> o.fetched,
     cur_num |-> l.cur_num, new_issue |-> l.new_issue]

\* Runs of one invocation one after the other (the scheduled job), with
\* fewer ways for Drive and the SMTP server to fail.
RunsEnv ==
    [SingleRunEnv EXCEPT
       !.rerun = TRUE,
       !.driveCfgs = { [enable |-> e, folder |-> TRUE, account |-> TRUE] :
                         e \in BOOLEAN },
       !.driveOutcomes = { DriveOutcome("ok", "ok", u) : u \in {"ok", "quota"} },
       !.smtpOutcomes = {"ok", "send_error"}]

\* Two invocations that overlap, one run each, inside the window.
ConcurrentEnv ==
    [RunsEnv EXCEPT
       !.procs = Procs,
       !.rerun = FALSE,
       !.files = {NoFile} \cup { StoredFile(n, YEAR) : n \in Issues },
       !.flags = { [force_run |-> FALSE, force_send |-> FALSE] },
       !.times = { <<13, 30, 15, 0>> },
       !.landing = { [exc |-> TRUE, status |-> 0, html |-> NoHtml] }
                   \cup { [exc |-> FALSE, status |-> 200,
                           html |-> Html("primary", n)] : n \in Issues },
       !.probes = { [exc |-> FALSE, status |-> c] : c \in {200, 404} },
       !.renders = {"ok"},
       !.driveCfgs = { [enable |-> FALSE, folder |-> TRUE, account |-> TRUE] },
       !.mailCfgs = { [send |-> TRUE, user |-> TRUE, pass |-> TRUE, to |-> 2] }]

\* The state before any invocation, in environment e.
InitIn(e) ==
    /\ env = e
    /\ file \in e.files
    /\ pc = [p \in Procs |-> "idle"]
    /\ loc = [p \in Procs |-> InitLoc]
    /\ obs = [p \in Procs |-> InitObs(NoFile)]
    /\ prev = [p \in Procs |-> NoPrev]

Init == InitIn(SingleRunEnv)

\* The process starts: the configuration is read from the environment
\* (lines 19-40) and main() reads FORCE_RUN and FORCE_SEND (lines 243-244).
Start(p) ==
    /\ p \in env.procs
    /\ pc[p] = "idle" \/ (pc[p] = "done" /\ env.rerun)
    /\ \E f \in env.flags, dc \in env.driveCfgs :
          loc' = [loc EXCEPT ![p] =
                    [InitLoc EXCEPT !.force_run = f.force_run,
                                    !.force_send = f.force_send,
                                    !.drive_on = drive_enabled(dc)]]
    /\ obs' = [obs EXCEPT ![p] = InitObs(file)]
    /\ prev' = [prev EXCEPT ![p] =
                  IF pc[p] = "done" THEN Summary(loc[p], obs[p]) ELSE @]
    /\ pc' = [pc EXCEPT ![p] = "gate"]
    /\ UNCHANGED <<file, env>>

\* Lines 246-248: outside the window and not forced, return.
Gate(p) ==
    /\ pc[p] = "gate"
    /\ \E now \in env.times :
          LET out == ~now_in_window(now) /\ ~loc[p].force_run IN
          /\ loc' = [loc EXCEPT ![p].t = now]
          /\ obs' = [obs EXCEPT ![p].gate = IF out THEN "out" ELSE "pass"]
          /\ pc' = [pc EXCEPT ![p] = IF out THEN "done" ELSE "load"]
    /\ UNCHANGED <<file, env, prev>>

\* Lines 250-251: s = http_session(); st = load_state().  The clock
\* reading was a local of now_in_window and is gone by now.
LoadState(p) ==
    /\ pc[p] = "load"
    /\ loc' = [loc EXCEPT ![p].s = TRUE, ![p].st = load_state(file),
                          ![p].t = NoTime]
    /\ obs' = [obs EXCEPT ![p].loaded = load_state(file).last_number]
    /\ pc' = [pc EXCEPT ![p] = "fetch"]
    /\ UNCHANGED <<file, env, prev>>

\* Lines 253-259: the current number from the site, or on any error the
\* last stored number (or 0) and an empty date.
Fetch(p) ==
    /\ pc[p] = "fetch"
    /\ \E resp \in env.landing :
          LET r == get_current_bur_number(resp) IN
          /\ loc' = [loc EXCEPT
                       ![p].cur_num = IF r.raised
                                      THEN OrZero(loc[p].st.last_number)
                                      ELSE r.num,
                       ![p].cur_date = IF r.raised THEN "" ELSE r.date]
          /\ obs' = [obs EXCEPT ![p].fetched = IF r.raised THEN None ELSE r.num,
                                ![p].net = @ + 1]
    /\ pc' = [pc EXCEPT ![p] = "decide"]
    /\ UNCHANGED <<file, env, prev>>

\* Lines 261-269: new_issue; return when there is neither a new issue nor
\* FORCE_SEND, else start the loop over PAGES with empty lists.
Decide(p) ==
    /\ pc[p] = "decide"
    /\ LET new == is_new_issue(loc[p].st, loc[p].cur_num) IN
       /\ loc' = [loc EXCEPT ![p].new_issue = new, ![p].page = 1]
       /\ pc' = [pc EXCEPT ![p] =
                   IF ~new /\ ~loc[p].force_send THEN "done" ELSE "probe"]
    /\ UNCHANGED <<file, env, obs, prev>>

\* The loop's next iteration, or the email step after the last page.
NextPc(l) == IF l.page = Len(PAGES) THEN "email" ELSE "probe"

NextPage(l) == IF l.page = Len(PAGES) THEN l.page ELSE l.page + 1

\* Lines 271-273 and 301-302: probe the sub-page's URL.
Probe(p) ==
    /\ pc[p] = "probe"
    /\ \E r \in env.probes :
          LET page == PAGES[loc[p].page] IN
          /\ obs' = [obs EXCEPT
                       ![p].probed = Append(@, page),
                       ![p].okProbes =
                           IF ~r.exc /\ r.status \in 200..399
                           THEN @ \cup {page} ELSE @,
                       ![p].net = @ + 1]
          /\ IF url_exists(r)
             THEN /\ pc' = [pc EXCEPT ![p] = "render"]
                  /\ loc' = loc
             ELSE /\ pc' = [pc EXCEPT ![p] = NextPc(loc[p])]
                  /\ loc' = [loc EXCEPT ![p].page = NextPage(loc[p])]
    /\ UNCHANGED <<file, env, prev>>

\* Lines 274-278 and 299-300: render the sub-page; its PDF joins
\* files_local when render_pdf_offline returns, and an exception is logged.
Render(p) ==
    /\ pc[p] = "render"
    /\ \E o \in env.renders :
          LET page == PAGES[loc[p].page] IN
          /\ obs' = [obs EXCEPT
                       ![p].rendered = Append(@, page),
                       ![p].renderedOK =
                           IF o \in {"ok", "unlink_missing", "stat_error"}
                           THEN @ \cup {page} ELSE @,
                       ![p].net = @ + 1]
          /\ IF render_pdf_offline(o)
             THEN /\ pc' = [pc EXCEPT ![p] = "upload"]
                  /\ loc' = [loc EXCEPT ![p].files_local =
                               Append(@, out_name(loc[p].cur_num, page))]
             ELSE /\ pc' = [pc EXCEPT ![p] = NextPc(loc[p])]
                  /\ loc' = [loc EXCEPT ![p].page = NextPage(loc[p])]
    /\ UNCHANGED <<file, env, prev>>

\* Faulty variant: the PDF joins files_local only after its upload, and a
\* failed upload skips that.
UploadBeforeAppend(p) ==
    /\ pc[p] = "upload"
    /\ \E o \in env.driveOutcomes :
          LET page == PAGES[loc[p].page]
              r == IF loc[p].drive_on
                   THEN drive_step(loc[p].drive, o)
                   ELSE [drive |-> loc[p].drive, meta |-> FALSE,
                         failed |-> FALSE]
          IN
          /\ loc' = [loc EXCEPT
                       ![p].drive = r.drive,
                       ![p].uploaded =
                           IF r.meta
                           THEN Append(@, out_name(loc[p].cur_num, page))
                           ELSE @,
                       ![p].files_local =
                           IF r.failed THEN SubSeq(@, 1, Len(@) - 1) ELSE @,
                       ![p].page = NextPage(loc[p])]
          /\ obs' = [obs EXCEPT
                       ![p].upFail = IF r.failed THEN @ \cup {page} ELSE @]
    /\ pc' = [pc EXCEPT ![p] = NextPc(loc[p])]
    /\ UNCHANGED <<file, env, prev>>

\* Lines 280-298: the optional upload of the PDF just rendered, every error
\* of which is caught inside the iteration.
Upload(p) ==
    /\ pc[p] = "upload"
    /\ \E o \in env.driveOutcomes :
          LET page == PAGES[loc[p].page]
              r == IF loc[p].drive_on
                   THEN drive_step(loc[p].drive, o)
                   ELSE [drive |-> loc[p].drive, meta |-> FALSE,
                         failed |-> FALSE]
          IN
          /\ loc' = [loc EXCEPT
                       ![p].drive = r.drive,
                       ![p].uploaded =
                           IF r.meta
                           THEN Append(@, out_name(loc[p].cur_num, page))
                           ELSE @,
                       ![p].page = NextPage(loc[p])]
          /\ obs' = [obs EXCEPT
                       ![p].upFail = IF r.failed THEN @ \cup {page} ELSE @]
    /\ pc' = [pc EXCEPT ![p] = NextPc(loc[p])]
    /\ UNCHANGED <<file, env, prev>>

\* Lines 304-315: one message with files_local attached when there is a
\* PDF; an exception of send_smtp is logged.
Email(p) ==
    /\ pc[p] = "email"
    /\ \E c \in env.mailCfgs, o \in env.smtpOutcomes :
          LET r == IF loc[p].files_local = <<>>
                   THEN "nofiles" ELSE send_smtp(c, o)
          IN
          obs' = [obs EXCEPT
                    ![p].emailStep = TRUE,
                    ![p].mailOn = IF r = "nofiles" THEN @
                                  ELSE c.send /\ c.user /\ c.pass /\ c.to > 0,
                    ![p].sent = IF r = "sent" THEN @ + 1 ELSE @,
                    ![p].attach = IF r = "sent" THEN loc[p].files_local ELSE @,
                    ![p].mailErr = (r = "raised")]
    /\ pc' = [pc EXCEPT ![p] = "save"]
    /\ UNCHANGED <<file, env, loc, prev>>

\* Lines 317-322: a new issue is recorded in state.json; "Completato.".
Save(p) ==
    /\ pc[p] = "save"
    /\ IF must_save(loc[p])
       THEN /\ file' = save_state(new_state(loc[p].st, loc[p].cur_num))
            /\ loc' = [loc EXCEPT ![p].st = new_state(@, loc[p].cur_num)]
            /\ obs' = [obs EXCEPT ![p].writes = @ + 1]
       ELSE UNCHANGED <<file, loc, obs>>
    /\ pc' = [pc EXCEPT ![p] = "done"]
    /\ UNCHANGED <<env, prev>>

Next ==
    \E p \in Procs :
        \/ Start(p)
        \/ Gate(p)
        \/ LoadState(p)
        \/ Fetch(p)
        \/ Decide(p)
        \/ Probe(p)
        \/ Render(p)
        \/ Upload(p)
        \/ Email(p)
        \/ Save(p)

Spec == Init /\ [][Next]_vars

\* The scheduled job: run after run.
SpecRuns == InitIn(RunsEnv) /\ [][Next]_vars

\* Two overlapping invocations.
SpecConc == InitIn(ConcurrentEnv) /\ [][Next]_vars

-----------------------------------------------------------------------------
(* Vocabulary of the properties *)

\* The run of p went past the gate.
PassedGate(p) == obs[p].gate = "pass"

\* The run of p has made its decision at line 261-265.
Decided(p) == pc[p] \notin {"idle", "gate", "load", "fetch", "decide"}

\* The run of p has left the loop over PAGES.
LoopOver(p) == pc[p] \in {"email", "save"} \/ (pc[p] = "done" /\ obs[p].emailStep)

\* The run of p read no number from the landing page (fetch or parse failed).
FetchFailed(p) == PassedGate(p) /\ pc[p] \notin {"load", "fetch"} /\ obs[p].fetched = None

\* A clock reading outside 09:00:00.000000 .. 18:00:00.000000.
OutsideWindow(t) ==
    \/ t[1] < 9
    \/ t[1] > 18
    \/ t[1] = 18 /\ (t[2] > 0 \/ t[3] > 0 \/ t[4] > 0)

\* The pages of PAGES that are in S, in the order of PAGES.
PagesIn(S) == LET In(x) == x \in S IN SelectSeq(PAGES, In)

\* The PDFs of issue n for the pages of q, in order.
Pdfs(n, q) == [k \in 1..Len(q) |-> out_name(n, q[k])]

\* The run of p did nothing of the distribution.
NoDistribution(p) ==
    /\ obs[p].probed = <<>>
    /\ obs[p].rendered = <<>>
    /\ loc[p].files_local = <<>>
    /\ loc[p].uploaded = <<>>
    /\ obs[p].upFail = {}
    /\ ~obs[p].emailStep
    /\ obs[p].sent = 0

-----------------------------------------------------------------------------
(* Properties *)

\* C4: a run that reads the clock outside 09:00..18:00 (both ends inside the
\* window) without FORCE_RUN has returned right after the gate: no HTTP
\* session, state.json not read, no request, no render, no email, no write,
\* whatever FORCE_SEND and state.json are.
C4_GatedRunDoesNothing ==
    \A p \in Procs :
        (loc[p].t # NoTime /\ OutsideWindow(loc[p].t) /\ ~loc[p].force_run)
        => /\ pc[p] = "done"
           /\ ~loc[p].s
           /\ loc[p].st = NoState
           /\ obs[p].net = 0
           /\ NoDistribution(p)
           /\ obs[p].writes = 0
           /\ file = obs[p].file0

C4_Witness ==
    /\ pc[1] = "done"
    /\ loc[1].t = <<18, 0, 0, 1>>
    /\ ~loc[1].force_run
    /\ loc[1].force_send
    /\ file = StoredFile(0, YEAR - 1)
    /\ obs[1].net = 0

\* C5: the pages are probed in the order of PAGES; a render is attempted for
\* exactly the probed pages whose status was in 200..399; a failed probe or
\* render never ends the loop, so after it all of PAGES were probed; and
\* files_local is exactly the PDFs of the pages probed OK and rendered
\* without error, in that order.
C5_LoopOverPages ==
    \A p \in Procs :
        LET o == obs[p]
            k == Len(o.probed)
            pending == IF pc[p] = "render" THEN {PAGES[loc[p].page]} ELSE {}
        IN
        /\ k <= Len(PAGES)
        /\ o.probed = SubSeq(PAGES, 1, k)
        /\ o.okProbes \subseteq {o.probed[j] : j \in 1..k}
        /\ o.rendered = PagesIn(o.okProbes \ pending)
        /\ loc[p].files_local
             = Pdfs(loc[p].cur_num, PagesIn(o.okProbes \cap o.renderedOK))
        /\ LoopOver(p) => o.probed = PAGES

C5_Witness ==
    /\ pc[1] = "done"
    /\ obs[1].probed = PAGES
    /\ obs[1].okProbes = {"siste", "suppo2", "suppo3"}
    /\ obs[1].renderedOK = {"suppo3"}
    /\ obs[1].rendered = <<"siste", "suppo2", "suppo3">>
    /\ loc[1].files_local = <<out_name(loc[1].cur_num, "suppo3")>>

\* C6: with Drive enabled, a page whose upload step failed keeps its PDF in
\* files_local, the later pages are still processed, the email step is
\* attempted with all of files_local, and the run completes.
C6_UploadFailureTolerated ==
    \A p \in Procs :
        (loc[p].drive_on /\ obs[p].upFail # {})
        => /\ \A x \in obs[p].upFail :
                 \E j \in 1..Len(loc[p].files_local) :
                     loc[p].files_local[j] = out_name(loc[p].cur_num, x)
           /\ pc[p] \in {"probe", "render", "upload", "email", "save", "done"}
           /\ LoopOver(p) => obs[p].probed = PAGES
           /\ pc[p] = "done"
                => /\ obs[p].emailStep
                   /\ obs[p].sent = 1 => obs[p].attach = loc[p].files_local
                   /\ loc[p].files_local
                        = Pdfs(loc[p].cur_num, PagesIn(obs[p].renderedOK))

C6_Witness ==
    /\ pc[1] = "done"
    /\ loc[1].drive_on
    /\ obs[1].upFail = {"siste", "suppo1"}
    /\ loc[1].drive = "client"
    /\ Len(loc[1].files_local) = 3
    /\ Len(loc[1].uploaded) = 1
    /\ obs[1].sent = 1
    /\ obs[1].attach = loc[1].files_local

\* C8: a run that passed the gate and whose current number differs from
\* the stored last_number writes state.json exactly once, as its last step
\* after the loop and the email step, with last_number the current number
\* and year YEAR, whatever the probes, renders, uploads and the email did and
\* whatever FORCE_SEND is; nothing is written before.
C8_StateWrittenOnceAtTheEnd ==
    \A p \in Procs :
        /\ pc[p] \notin {"idle", "done"}
             => (obs[p].writes = 0 /\ file = obs[p].file0)
        /\ (pc[p] = "done" /\ PassedGate(p)
              /\ obs[p].file0.last_number # loc[p].cur_num)
           => /\ obs[p].writes = 1
              /\ file = StoredFile(loc[p].cur_num, YEAR)
              /\ obs[p].probed = PAGES
              /\ obs[p].emailStep

C8_Witness ==
    /\ pc[1] = "done"
    /\ loc[1].force_send
    /\ obs[1].file0 = StoredFile(0, YEAR - 1)
    /\ obs[1].fetched = 1
    /\ loc[1].files_local = <<>>
    /\ obs[1].sent = 0
    /\ obs[1].writes = 1
    /\ file = StoredFile(1, YEAR)

\* C9: a run sends at most one message, only with a PDF and with SEND_EMAIL,
\* SMTP_USER, SMTP_PASS and a recipient set; the attachments are the PDFs of
\* the pages rendered in this run; an error of send_smtp is caught: the run
\* goes on to the state step and completes, writing the state of a new issue.
C9_OneEmailErrorsCaught ==
    \A p \in Procs :
        /\ obs[p].sent <= 1
        /\ obs[p].sent = 1
             => /\ loc[p].files_local # <<>>
                /\ obs[p].mailOn
                /\ obs[p].attach = loc[p].files_local
                /\ obs[p].attach
                     = Pdfs(loc[p].cur_num, PagesIn(obs[p].renderedOK))
        /\ obs[p].mailErr
             => /\ pc[p] \in {"save", "done"}
                /\ obs[p].sent = 0
                /\ (pc[p] = "done" /\ obs[p].file0.last_number # loc[p].cur_num)
                     => (obs[p].writes = 1 /\ file.last_number = loc[p].cur_num)

C9_Witness ==
    /\ pc[1] = "done"
    /\ obs[1].mailErr
    /\ Len(loc[1].files_local) = 2
    /\ obs[1].file0 = NoFile
    /\ obs[1].fetched = 1
    /\ obs[1].writes = 1
    /\ file = StoredFile(1, YEAR)

\* C2: last_number of state.json differs after a run from what it was before
\* only if the run read from the landing page a number different from the
\* stored one and went through the loop and the email step.
C2_LastNumberChangesOnlyOnObservedIssue ==
    \A p \in Procs :
        (pc[p] = "done" /\ file.last_number # obs[p].file0.last_number)
        => /\ obs[p].fetched # None
           /\ obs[p].fetched # obs[p].file0.last_number
           /\ obs[p].probed = PAGES
           /\ obs[p].emailStep

\* C7: a run whose fetch or parse of the landing page failed goes on with
\* the last stored number and an empty date and detects no new issue;
\* without FORCE_SEND it distributes nothing and writes nothing.
C7_FetchFailureDetectsNothing ==
    \A p \in Procs :
        (FetchFailed(p) /\ Decided(p))
        => /\ loc[p].cur_date = ""
           /\ loc[p].cur_num = obs[p].loaded
           /\ ~loc[p].new_issue
           /\ ~loc[p].force_send
                => (NoDistribution(p) /\ obs[p].writes = 0 /\ file = obs[p].file0)

\* C1: of two runs one after the other that both pass the gate and read
\* the same number from the landing page, the second, without FORCE_SEND,
\* returns at the decision: no probe, render, upload or email, and state.json
\* stays as the first run left it.
C1_SameIssueSecondRunIdle ==
    \A p \in Procs :
        (/\ prev[p].ran /\ prev[p].gate = "pass" /\ prev[p].fetched # None
         /\ PassedGate(p) /\ Decided(p)
         /\ obs[p].fetched = prev[p].fetched
         /\ ~loc[p].force_send)
        => /\ pc[p] = "done"
           /\ NoDistribution(p)
           /\ obs[p].writes = 0
           /\ file = obs[p].file0

C1_Witness ==
    /\ pc[1] = "done"
    /\ prev[1].ran /\ prev[1].gate = "pass" /\ prev[1].new_issue
    /\ prev[1].fetched = 1
    /\ PassedGate(1)
    /\ obs[1].fetched = 1
    /\ ~loc[1].force_send
    /\ ~loc[1].new_issue
    /\ file = StoredFile(1, YEAR)

\* C3: after a run that detected issue N as new and completed, a run with
\* FORCE_SEND that passes the gate and reads N goes through the whole loop
\* and the email step and never writes state.json.
C3_ForcedSendKeepsState ==
    \A p \in Procs :
        (/\ prev[p].ran /\ prev[p].new_issue
         /\ PassedGate(p) /\ Decided(p)
         /\ obs[p].fetched = prev[p].cur_num
         /\ loc[p].force_send)
        => /\ obs[p].writes = 0
           /\ file = obs[p].file0
           /\ file = StoredFile(prev[p].cur_num, YEAR)
           /\ pc[p] = "done" => (obs[p].probed = PAGES /\ obs[p].emailStep)

C3_Witness ==
    /\ pc[1] = "done"
    /\ prev[1].ran /\ prev[1].new_issue /\ prev[1].cur_num = 1
    /\ obs[1].fetched = 1
    /\ loc[1].force_send
    /\ obs[1].probed = PAGES
    /\ obs[1].sent = 1
    /\ obs[1].writes = 0
    /\ file = StoredFile(1, YEAR)

\* C10: two overlapping invocations that both loaded a state whose
\* last_number is not N and both read N from the landing page both detect N
\* as new and both go through the loop and the email step; when both are
\* done state.json holds N.
C10_OverlapBothDistribute ==
    \A p, q \in Procs :
        (/\ p # q
         /\ PassedGate(p) /\ PassedGate(q)
         /\ Decided(p) /\ Decided(q)
         /\ obs[p].fetched # None /\ obs[p].fetched = obs[q].fetched
         /\ obs[p].loaded # obs[p].fetched /\ obs[q].loaded # obs[q].fetched)
        => /\ loc[p].new_issue /\ loc[q].new_issue
           /\ LoopOver(p) \/ pc[p] \in {"probe", "render", "upload"}
           /\ (pc[p] = "done" /\ pc[q] = "done")
                => /\ obs[p].probed = PAGES /\ obs[q].probed = PAGES
                   /\ obs[p].emailStep /\ obs[q].emailStep
                   /\ obs[p].writes = 1 /\ obs[q].writes = 1
                   /\ file = StoredFile(obs[p].fetched, YEAR)

\* Both invocations mailed the PDFs of the same issue.
C10_Witness ==
    /\ pc[1] = "done" /\ pc[2] = "done"
    /\ obs[1].loaded = 0 /\ obs[2].loaded = 0
    /\ obs[1].fetched = 1 /\ obs[2].fetched = 1
    /\ obs[1].sent = 1 /\ obs[2].sent = 1
    /\ obs[1].attach # <<>> /\ obs[1].attach = obs[2].attach
    /\ file = StoredFile(1, YEAR)

====
